---- MODULE Spec2Model ----
(***************************************************************************)
(* Observability demo service: the telemetry bootstrap (app/tracing.js)    *)
(* and the instrumented HTTP service (app/index.js).                       *)
(*                                                                         *)
(* The service runs on one event-loop thread.  Every action below is one   *)
(* run-to-completion turn of that thread (a request dispatched through the *)
(* middleware into its route handler, a timer callback, a response's       *)
(* 'finish' event, a promise callback, a signal handler) or a step of the  *)
(* environment (time passing, the transport dropping a connection, a       *)
(* signal being delivered).                                                *)
(***************************************************************************)
EXTENDS Integers, FiniteSets, Sequences, TLC

\* ---------------------------------------------------------------- bounds
\* Number of requests the clients send during one run.
NumReq == 2
\* Math.random() is sampled at k / RandDen for k in 0 .. RandDen-1.
RandDen == 2

\* ------------------------------------------------------ program constants
\* index.js:75   Math.floor(Math.random() * 500)
HelloDelaySpan == 500
\* index.js:170  Math.floor(Math.random() * 200) + 50
QuerySpan == 200
QueryBase == 50
\* index.js:94   Math.random() < 0.3, as the fraction FailNum / FailDen
FailNum == 3
FailDen == 10

Requests == 1 .. NumReq
Samples == 0 .. (RandDen - 1)

\* The paths the seven app.get(...) calls register, in source order.
Routes == {"/health", "/hello", "/flaky", "/cpu-intensive", "/memory",
           "/db-query", "/metrics-demo"}
Paths == Routes \cup {"/unknown-path"}
\* The <<method, path>> pairs the clients send.
Targets == ({"GET"} \X Paths) \cup {<<"POST", "/health">>,
                                    <<"POST", "/unknown-path">>}

VARIABLES
    sdk,                 \* promise of sdk.start(): "starting" | "started" | "failed"
    server,              \* app.listen(): "binding" | "listening"
    shutdown,            \* promise of sdk.shutdown(): "none" | "pending" | "hung" | "settled"
    proc,                \* "running" | "exited"
    loop,                \* request whose synchronous code holds the thread, 0 if none
    req,                 \* per request: its observation context and response
    httpRequestsTotal,   \* counter, per <<method, endpoint>>
    httpRequestDuration, \* histogram: number of recorded durations
    activeConnections    \* up/down counter

vars == <<sdk, server, shutdown, proc, loop, req, httpRequestsTotal,
          httpRequestDuration, activeConnections>>

\* A request the clients have not sent yet.
NewReq ==
    [pc |-> "new", method |-> "", path |-> "", conn |-> "none",
     res |-> "none", status |-> 0, answeredBy |-> "none", threw |-> FALSE,
     bodyPath |-> "", bodyDelay |-> -1,
     spanStarted |-> 0, spanEnded |-> 0, hookRuns |-> 0,
     dbStarted |-> 0, dbEnded |-> 0, dbStatus |-> 0,
     delay |-> -1, timerDelay |-> -1, elapsed |-> 0]

Min(S) == CHOOSE x \in S : \A y \in S : x <= y

\* ------------------------------------------------------------ pure parts

\* Math.floor(Math.random() * 500) at the sample k / RandDen.
HelloDelay(k) == (k * HelloDelaySpan) \div RandDen

\* Math.floor(Math.random() * 200) + 50 at the sample k / RandDen.
QueryTime(k) == ((k * QuerySpan) \div RandDen) + QueryBase

\* Math.random() < 0.3 at the sample k / RandDen.
ShouldFail(k) == k * FailDen < FailNum * RandDen

\* Fault: the routes registered for every method (app.all for app.get).
MatchRouteAnyMethod(m, p) == IF p \in Routes THEN p ELSE "none"

\* Express routing: app.get registers GET only, on the exact path; anything
\* else falls through to the 404 middleware.
MatchRoute(m, p) == IF m = "GET" /\ p \in Routes THEN p ELSE "none"

\* res.status(code).json(body): the response is ended; 'finish' comes later.
Respond(q, code, by) ==
    [q EXCEPT !.pc = "handled", !.res = "ended", !.status = code,
              !.answeredBy = by]

\* ------------------------------------------------- middleware and handlers

\* Request-tracking middleware, entry part: span started, connection open.
Middleware(q, m, p) ==
    [q EXCEPT !.method = m, !.path = p, !.conn = "open",
              !.spanStarted = @ + 1]

\* httpRequestsTotal.add(1, {method, endpoint})
CountRequest(c, m, p) == [c EXCEPT ![<<m, p>>] = @ + 1]

\* activeConnections.add(1)
ConnOpened(g) == g + 1

\* Fault: the completion hook leaves the up/down counter alone.
ConnClosedLeak(g) == g

\* activeConnections.add(-1)
ConnClosed(g) == g - 1

\* The res.on('finish') callback, per-request part.
FinishHook(q) ==
    [q EXCEPT !.res = "finished", !.hookRuns = @ + 1, !.spanEnded = @ + 1]

HealthHandler(q) == Respond(q, 200, "route")

MemoryHandler(q) == Respond(q, 200, "route")

MetricsDemoHandler(q) == Respond(q, 200, "route")

\* Fault: the timer armed without the drawn delay.
HelloTimerArgZero(delay) == 0

\* The second argument of setTimeout in GET /hello.
HelloTimerArg(delay) == delay

\* GET /hello, synchronous part: draw the delay and arm the timer.
HelloHandler(q, k) ==
    [q EXCEPT !.pc = "helloWait", !.delay = HelloDelay(k),
              !.timerDelay = HelloTimerArg(HelloDelay(k)), !.elapsed = 0]

\* The `delay` field of the GET /hello body.
HelloBodyDelay(q) == q.delay

\* GET /hello, timer callback.
HelloCallback(q) ==
    [Respond(q, 200, "route") EXCEPT !.bodyDelay = HelloBodyDelay(q)]

FlakyHandler(q, k) ==
    IF ShouldFail(k) THEN Respond(q, 500, "route")
    ELSE Respond(q, 200, "route")

\* GET /cpu-intensive: the loop holds the thread until it is done.
CpuStart(q) == [q EXCEPT !.pc = "cpuRun"]

CpuFinish(q) == Respond(q, 200, "route")

\* Fault: span.end() missing on the success path.
DbFinallyAfterTrySkipped(n) == n

\* The finally block of GET /db-query, reached from the try block.
DbFinallyAfterTry(n) == n + 1

\* Fault: span.end() at the end of the try block only, no finally.
DbFinallyAfterCatchSkipped(n) == n

\* The finally block of GET /db-query, reached from the catch block.
DbFinallyAfterCatch(n) == n + 1

\* An error is thrown in the handler of the request.
Thrown(q) == [q EXCEPT !.threw = TRUE]

\* catch (error) of GET /db-query, then finally.
DbCatch(q) ==
    [Respond(q, 500, "route") EXCEPT !.dbStatus = 2,
                                      !.dbEnded = DbFinallyAfterCatch(@)]

\* GET /db-query up to the await: child span started, timer armed; an error
\* thrown in the try block before the await goes to the catch block.
DbQueryHandler(q, k, throws) ==
    LET q1 == [q EXCEPT !.dbStarted = @ + 1] IN
    IF throws THEN DbCatch(Thrown(q1))
    ELSE [q1 EXCEPT !.pc = "dbWait", !.delay = QueryTime(k),
                    !.timerDelay = QueryTime(k), !.elapsed = 0]

\* GET /db-query after the await: respond 200, or catch an error; finally.
DbContinue(q, throws) ==
    IF throws THEN DbCatch(Thrown(q))
    ELSE [Respond(q, 200, "route") EXCEPT !.dbStatus = 1,
                                           !.dbEnded = DbFinallyAfterTry(@)]

\* The catch-all 404 middleware.
NotFoundHandler(q) ==
    [Respond(q, 404, "notFound") EXCEPT !.bodyPath = q.path]

\* Fault: the error handler logs the error and sends no response.
ErrorHandlerNoResponse(q) == [q EXCEPT !.pc = "handled"]

\* The generic error handler (err, req, res, next).
ErrorHandler(q) == Respond(q, 500, "errorHandler")

\* Fault: the delay simulated by a busy wait that keeps the thread.
AfterHelloBusyWait(r) == r

\* The thread after the synchronous part of GET /hello returns.
AfterHello(r) == 0

\* Express dispatch of one request: middleware, then the first matching
\* route, else the 404 middleware; a handler that throws synchronously is
\* routed to the error handler.
Dispatch(q, m, p, k, throws) ==
    LET q1 == Middleware(q, m, p)
        route == MatchRoute(m, p)
    IN  CASE route = "none" -> NotFoundHandler(q1)
          [] route = "/db-query" -> DbQueryHandler(q1, k, throws)
          [] route = "/cpu-intensive" -> CpuStart(q1)
          [] throws -> ErrorHandler(Thrown(q1))
          [] route = "/health" -> HealthHandler(q1)
          [] route = "/hello" -> HelloHandler(q1, k)
          [] route = "/flaky" -> FlakyHandler(q1, k)
          [] route = "/memory" -> MemoryHandler(q1)
          [] OTHER -> MetricsDemoHandler(q1)

\* ------------------------------------------------------------------ state

Init ==
    /\ sdk = "starting"
    /\ server = "binding"
    /\ shutdown = "none"
    /\ proc = "running"
    /\ loop = 0
    /\ req = [r \in Requests |-> NewReq]
    /\ httpRequestsTotal = [e \in Targets |-> 0]
    /\ httpRequestDuration = 0
    /\ activeConnections = 0

\* The event loop can run a callback.
Idle == proc = "running" /\ loop = 0

\* sdk.start().then(...)
SdkStartResolve ==
    /\ Idle /\ sdk = "starting"
    /\ sdk' = "started"
    /\ UNCHANGED <<server, shutdown, proc, loop, req, httpRequestsTotal,
                   httpRequestDuration, activeConnections>>

\* sdk.start().catch(...): the error is logged and the process goes on.
SdkStartReject ==
    /\ Idle /\ sdk = "starting"
    /\ sdk' = "failed"
    /\ UNCHANGED <<server, shutdown, proc, loop, req, httpRequestsTotal,
                   httpRequestDuration, activeConnections>>

\* app.listen callback: the port is bound.
Listening ==
    /\ Idle /\ server = "binding"
    /\ server' = "listening"
    /\ UNCHANGED <<sdk, shutdown, proc, loop, req, httpRequestsTotal,
                   httpRequestDuration, activeConnections>>

\* The r-th request arrives and runs through the middleware into its
\* handler (requests are numbered in their order of arrival).
Request(r) ==
    /\ Idle /\ server = "listening"
    /\ req[r].pc = "new"
    /\ \A s \in Requests : s < r => req[s].pc # "new"
    /\ \E t \in Targets, k \in Samples, throws \in BOOLEAN :
          /\ req' = [req EXCEPT ![r] = Dispatch(req[r], t[1], t[2], k, throws)]
          /\ httpRequestsTotal' = CountRequest(httpRequestsTotal, t[1], t[2])
          /\ loop' = CASE MatchRoute(t[1], t[2]) = "/cpu-intensive" -> r
                       [] MatchRoute(t[1], t[2]) = "/hello" /\ ~throws
                            -> AfterHello(r)
                       [] OTHER -> 0
    /\ activeConnections' = ConnOpened(activeConnections)
    /\ UNCHANGED <<sdk, server, shutdown, proc, httpRequestDuration>>

\* GET /cpu-intensive: the loop ends and the handler responds (or throws).
CpuDone(r) ==
    /\ proc = "running" /\ loop = r
    /\ req[r].pc = "cpuRun"
    /\ \E throws \in BOOLEAN :
          req' = [req EXCEPT ![r] = IF throws THEN ErrorHandler(Thrown(@))
                                    ELSE CpuFinish(@)]
    /\ loop' = 0
    /\ UNCHANGED <<sdk, server, shutdown, proc, httpRequestsTotal,
                   httpRequestDuration, activeConnections>>

Waiting(r) == req[r].pc \in {"helloWait", "dbWait"}

Remaining(r) == req[r].timerDelay - req[r].elapsed

\* Time passes, up to the next timer that is not yet due.
Tick ==
    /\ proc = "running"
    /\ \E r \in Requests : Waiting(r) /\ Remaining(r) > 0
    /\ LET d == Min({Remaining(r) : r \in {x \in Requests :
                                   Waiting(x) /\ Remaining(x) > 0}})
       IN  req' = [r \in Requests |->
                     IF Waiting(r) THEN [req[r] EXCEPT !.elapsed = @ + d]
                     ELSE req[r]]
    /\ UNCHANGED <<sdk, server, shutdown, proc, loop, httpRequestsTotal,
                   httpRequestDuration, activeConnections>>

\* The thread is free for the callbacks of request r.
CanRun(r) == proc = "running" /\ (loop = 0 \/ loop = r)

\* setTimeout callback of GET /hello.
HelloTimeout(r) ==
    /\ CanRun(r)
    /\ req[r].pc = "helloWait" /\ Remaining(r) <= 0
    /\ req' = [req EXCEPT ![r] = HelloCallback(@)]
    /\ loop' = 0
    /\ UNCHANGED <<sdk, server, shutdown, proc, httpRequestsTotal,
                   httpRequestDuration, activeConnections>>

\* GET /db-query resumes after its await.
DbResume(r) ==
    /\ Idle
    /\ req[r].pc = "dbWait" /\ Remaining(r) <= 0
    /\ \E throws \in BOOLEAN :
          req' = [req EXCEPT ![r] = DbContinue(@, throws)]
    /\ UNCHANGED <<sdk, server, shutdown, proc, loop, httpRequestsTotal,
                   httpRequestDuration, activeConnections>>

\* The response's 'finish' event: the middleware's completion hook.
Finish(r) ==
    /\ Idle
    /\ req[r].res = "ended" /\ req[r].conn = "open"
    /\ req' = [req EXCEPT ![r] = FinishHook(@)]
    /\ httpRequestDuration' = httpRequestDuration + 1
    /\ activeConnections' = ConnClosed(activeConnections)
    /\ UNCHANGED <<sdk, server, shutdown, proc, loop, httpRequestsTotal>>

\* The transport drops the connection while the handler is still waiting:
\* the response never emits 'finish'.
Drop(r) ==
    /\ proc = "running"
    /\ Waiting(r) /\ req[r].conn = "open"
    /\ req' = [req EXCEPT ![r].conn = "dropped"]
    /\ UNCHANGED <<sdk, server, shutdown, proc, loop, httpRequestsTotal,
                   httpRequestDuration, activeConnections>>

\* process.on('SIGTERM'): sdk.shutdown() is called; its promise may settle
\* or stay pending for ever.
Sigterm ==
    /\ Idle /\ shutdown = "none"
    /\ \E s \in {"pending", "hung"} : shutdown' = s
    /\ UNCHANGED <<sdk, server, proc, loop, req, httpRequestsTotal,
                   httpRequestDuration, activeConnections>>

\* sdk.shutdown().then(...) / .catch(...)
ShutdownSettle ==
    /\ Idle /\ shutdown = "pending"
    /\ shutdown' = "settled"
    /\ UNCHANGED <<sdk, server, proc, loop, req, httpRequestsTotal,
                   httpRequestDuration, activeConnections>>

\* .finally(() => process.exit(0))
ProcessExit ==
    /\ Idle /\ shutdown = "settled"
    /\ proc' = "exited"
    /\ UNCHANGED <<sdk, server, shutdown, loop, req, httpRequestsTotal,
                   httpRequestDuration, activeConnections>>

Next ==
    \/ SdkStartResolve
    \/ SdkStartReject
    \/ Listening
    \/ \E r \in Requests : Request(r)
    \/ \E r \in Requests : CpuDone(r)
    \/ Tick
    \/ \E r \in Requests : HelloTimeout(r)
    \/ \E r \in Requests : DbResume(r)
    \/ \E r \in Requests : Finish(r)
    \/ \E r \in Requests : Drop(r)
    \/ Sigterm
    \/ ShutdownSettle
    \/ ProcessExit

Spec == Init /\ [][Next]_vars

\* The service in steady state: the SDK has started, the port is bound and
\* no signal arrives; only requests are served.
ServeInit ==
    /\ sdk = "started"
    /\ server = "listening"
    /\ shutdown = "none"
    /\ proc = "running"
    /\ loop = 0
    /\ req = [r \in Requests |-> NewReq]
    /\ httpRequestsTotal = [e \in Targets |-> 0]
    /\ httpRequestDuration = 0
    /\ activeConnections = 0

ServeNext ==
    \/ \E r \in Requests : Request(r)
    \/ \E r \in Requests : CpuDone(r)
    \/ Tick
    \/ \E r \in Requests : HelloTimeout(r)
    \/ \E r \in Requests : DbResume(r)
    \/ \E r \in Requests : Finish(r)
    \/ \E r \in Requests : Drop(r)

ServeSpec == ServeInit /\ [][ServeNext]_vars

\* ------------------------------------------------------------- properties

Arrived(r) == req[r].pc # "new"

Finished(r) == req[r].res = "finished"

\* The request has left the system: its response finished, or its connection
\* was dropped and its handler has run to the end.
Left(r) == Finished(r) \/ (req[r].conn = "dropped" /\ req[r].pc = "handled")

\* C1: every request that has left the system, on any exit path including
\* a connection dropped by the transport, started exactly one request span and
\* ended it exactly once.
C1_SpanEndedOnEveryExit ==
    \A r \in Requests :
        /\ req[r].spanEnded <= 1
        /\ Arrived(r) => req[r].spanStarted = 1
        /\ Left(r) => req[r].spanEnded = 1

\* C2: active_connections always equals the number of requests that have
\* entered the middleware and whose response has not yet completed, never
\* goes below its initial value 0, and is back at 0 once every request that
\* entered has completed.
C2_ActiveConnections ==
    /\ activeConnections =
          Cardinality({r \in Requests : Arrived(r) /\ ~Finished(r)})
    /\ activeConnections >= 0
    /\ (\A r \in Requests : Arrived(r) => Finished(r)) => activeConnections = 0

\* C2 witness: one request has completed while another, which entered
\* concurrently, is still waiting; the counter counts exactly the latter.
C2_Witness ==
    \E r1, r2 \in Requests :
        Finished(r1) /\ Waiting(r2) /\ activeConnections = 1

\* C3: a request whose route handler threw is answered by the generic error
\* handler with a 500, and the completion hook runs exactly once per completed
\* response (duration recorded once, span ended once) whatever the status;
\* it never runs twice and is pending for every response that has been sent.
C3_HookOncePerRequest ==
    /\ \A r \in Requests :
        /\ req[r].hookRuns <= 1
        /\ (req[r].threw /\ req[r].path # "/db-query") =>
              /\ req[r].answeredBy = "errorHandler"
              /\ req[r].status = 500
              /\ req[r].res \in {"ended", "finished"}
        /\ Finished(r) =>
              /\ req[r].hookRuns = 1 /\ req[r].spanEnded = 1
              /\ req[r].status \in {200, 404, 500}
        /\ ~Finished(r) => req[r].hookRuns = 0
        /\ (req[r].res = "ended" /\ req[r].conn = "open" /\ loop = 0) =>
              ENABLED Finish(r)
    /\ httpRequestDuration = Cardinality({r \in Requests : Finished(r)})

\* C3 witness: a handler threw, the error handler answered 500 and the
\* completion hook has run once.
C3_Witness ==
    \E r \in Requests :
        /\ req[r].threw /\ req[r].path # "/db-query"
        /\ Finished(r) /\ req[r].status = 500 /\ req[r].hookRuns = 1

\* C4: GET /db-query starts one 'database_query' span, never ends it twice,
\* and once the handler has run to its end the span is ended exactly once,
\* with status OK and a 200 on success, with status ERROR and a 500 when an
\* error was thrown in the try block; while the handler awaits, its
\* continuation stays scheduled.
C4_DbSpanAlwaysEnded ==
    \A r \in Requests :
        /\ req[r].dbEnded <= req[r].dbStarted /\ req[r].dbStarted <= 1
        /\ (Arrived(r) /\ req[r].method = "GET" /\ req[r].path = "/db-query")
              <=> req[r].dbStarted = 1
        /\ (req[r].dbStarted = 1 /\ req[r].pc = "handled") =>
              /\ req[r].dbEnded = 1
              /\ IF req[r].threw
                 THEN req[r].dbStatus = 2 /\ req[r].status = 500
                 ELSE req[r].dbStatus = 1 /\ req[r].status = 200
        /\ req[r].pc = "dbWait" =>
              /\ req[r].dbStarted = 1 /\ req[r].dbEnded = 0
              /\ (Remaining(r) <= 0 /\ loop = 0) => ENABLED DbResume(r)

\* C4 witness: one /db-query ended its span on the success path and another
\* on the error path.
C4_Witness ==
    \E r1, r2 \in Requests :
        /\ req[r1].dbEnded = 1 /\ req[r1].status = 200
        /\ req[r2].dbEnded = 1 /\ req[r2].status = 500 /\ req[r2].threw

\* C5: while a request waits on its timer (GET /hello, GET /db-query) it does
\* not hold the thread: unless another request's synchronous code holds it,
\* every other request can take its next step (enter the middleware, run its
\* own timer callback, complete).
C5_WaitingDoesNotBlock ==
    \A r1, r2 \in Requests :
        (r1 # r2 /\ Waiting(r1) /\ loop \in {0, r1}) =>
            /\ (req[r2].pc = "new" /\ (\A s \in Requests : s < r2 => Arrived(s)))
                  => ENABLED Request(r2)
            /\ (req[r2].pc = "helloWait" /\ Remaining(r2) <= 0)
                  => ENABLED HelloTimeout(r2)
            /\ (req[r2].pc = "dbWait" /\ Remaining(r2) <= 0)
                  => ENABLED DbResume(r2)
            /\ (req[r2].res = "ended" /\ req[r2].conn = "open")
                  => ENABLED Finish(r2)

\* C5 witness: a request that arrived after a waiting one has completed while
\* the earlier one is still waiting.
C5_Witness ==
    \E r1, r2 \in Requests :
        r1 < r2 /\ Waiting(r1) /\ Remaining(r1) > 0 /\ Finished(r2)

\* C6: GET /hello draws a delay in [0, 500), sends nothing while its timer is
\* pending, and the response its handler sends carries that delay, which is
\* the duration the timer was armed with, and is sent only after at least
\* that much time has passed.
C6_HelloWaitsFullDelay ==
    \A r \in Requests :
        (req[r].method = "GET" /\ req[r].path = "/hello") =>
            /\ req[r].pc = "helloWait" =>
                  /\ req[r].res = "none"
                  /\ req[r].delay \in 0 .. 499
                  /\ req[r].timerDelay = req[r].delay
            /\ req[r].answeredBy = "route" =>
                  /\ req[r].bodyDelay = req[r].delay
                  /\ req[r].bodyDelay = req[r].timerDelay
                  /\ req[r].bodyDelay \in 0 .. 499
                  /\ req[r].elapsed >= req[r].bodyDelay

\* C6 witness: a /hello response was sent after a positive delay.
C6_Witness ==
    \E r \in Requests :
        /\ req[r].path = "/hello" /\ req[r].answeredBy = "route"
        /\ req[r].bodyDelay > 0 /\ req[r].elapsed >= req[r].bodyDelay

\* C7: once SIGTERM has been handled the process has exited or, whenever the
\* thread is free, a step towards exit is scheduled, also when the shutdown
\* promise never settles.
C7_ExitAfterSigterm ==
    (shutdown # "none" /\ loop = 0) =>
        (proc = "exited" \/ ENABLED (ShutdownSettle \/ ProcessExit))

\* C8: no request has entered the middleware unless the telemetry pipeline
\* has started.
C8_StartedBeforeFirstRequest ==
    \A r \in Requests : Arrived(r) => sdk = "started"

\* C9: a request that matches no route (any path not registered, or a
\* registered path with a method other than GET) is answered by the 404
\* middleware with its own path, never by a route handler or the error
\* handler, and is instrumented like any other request.
C9_UnmatchedGets404 ==
    /\ \A r \in Requests :
        (Arrived(r) /\ ~(req[r].method = "GET" /\ req[r].path \in Routes)) =>
            /\ req[r].answeredBy = "notFound" /\ req[r].status = 404
            /\ req[r].bodyPath = req[r].path
            /\ req[r].spanStarted = 1
            /\ req[r].res \in {"ended", "finished"}
            /\ Finished(r) => (req[r].hookRuns = 1 /\ req[r].spanEnded = 1)
            /\ (req[r].res = "ended" /\ loop = 0) => ENABLED Finish(r)
    /\ \A t \in Targets :
        httpRequestsTotal[t] =
            Cardinality({r \in Requests :
                           Arrived(r) /\ <<req[r].method, req[r].path>> = t})

\* C9 witness: an unknown path and a POST to a registered path have both
\* completed with a 404.
C9_Witness ==
    \E r1, r2 \in Requests :
        /\ req[r1].path = "/unknown-path" /\ Finished(r1) /\ req[r1].status = 404
        /\ req[r2].method = "POST" /\ req[r2].path = "/health"
        /\ Finished(r2) /\ req[r2].status = 404

\* C10: the 'database_query' span of a request lies inside its request span:
\* it is started only once the request span is, and it has been ended by the
\* time the response is sent, hence before the completion hook ends the
\* request span.
C10_DbSpanNested ==
    \A r \in Requests :
        /\ req[r].dbStarted <= req[r].spanStarted
        /\ req[r].dbEnded <= req[r].dbStarted
        /\ (req[r].dbStarted = 1 /\ req[r].res \in {"ended", "finished"})
              => req[r].dbEnded = 1
        /\ (req[r].dbStarted = 1 /\ req[r].dbEnded = 0) => req[r].spanEnded = 0

\* C10 witness: a /db-query request span has been ended on the success path,
\* after its child span.
C10_Witness ==
    \E r \in Requests :
        /\ req[r].dbStarted = 1 /\ req[r].dbEnded = 1 /\ ~req[r].threw
        /\ req[r].spanEnded = 1

====
